---- MODULE Spec2Model ----
(***************************************************************************)
(* Model of scripts/extract-rsrc-lang.py: the generator that turns the    *)
(* MS-LCID text table into Go source fragments.                            *)
(*                                                                         *)
(* A Python str is a sequence of one-character strings.  A generated      *)
(* line is the tuple of the literal and substituted parts of the f-string *)
(* that produced it, without its trailing "\n"; a generated blob (`code`) *)
(* is the sequence of its lines.                                           *)
(***************************************************************************)
EXTENDS Integers, Sequences, FiniteSets, TLC

VARIABLES
    pc,                     \* position in __main__ / in the function under study
    map_code,               \* generate_lang_sub_lang_map_string: local code
    fs_ids,                 \* content of lang_ids.txt: sequence of lines
    fs_spec,                \* content of ms-lcid.txt: sequence of lines
    lang_ids,               \* __main__: lang_ids
    languages,              \* __main__: languages
    code,                   \* __main__: code
    disk,                   \* the four output files: NoFile or the blob written
    curly_bracket_is_open,  \* generate_lang_sub_lang_map_string: local flag
    idx,                    \* generate_lang_sub_lang_map_string: position of the for loop
    reads,                  \* history: input files read so far
    generated,              \* history: generators that have returned so far
    arg,                    \* argument of the pure function under study
    ret                     \* its return value

vars == << pc, map_code, fs_ids, fs_spec, lang_ids, languages, code, disk,
           curly_bracket_is_open, idx, reads, generated, arg, ret >>

-----------------------------------------------------------------------------
(* Bounds of the model *)

MaxLines == 3       \* lines of ms-lcid.txt
MaxStrLen == 3      \* length of the argument of sanitize_lang
MaxNameTokens == 2  \* name tokens of a line in the name-reconstruction study
MaxTokLen == 2      \* length of a name token in the name-reconstruction study

-----------------------------------------------------------------------------
(* Python str operations used by the script *)

Lowers == << "a","b","c","d","e","f","g","h","i","j","k","l","m",
             "n","o","p","q","r","s","t","u","v","w","x","y","z" >>
Uppers == << "A","B","C","D","E","F","G","H","I","J","K","L","M",
             "N","O","P","Q","R","S","T","U","V","W","X","Y","Z" >>

Range(s) == { s[i] : i \in DOMAIN s }

Min(a, b) == IF a < b THEN a ELSE b

\* c.upper() / c.lower() of one character
UpperChar(c) ==
    IF \E i \in DOMAIN Lowers : Lowers[i] = c
    THEN Uppers[CHOOSE i \in DOMAIN Lowers : Lowers[i] = c]
    ELSE c

LowerChar(c) ==
    IF \E i \in DOMAIN Uppers : Uppers[i] = c
    THEN Lowers[CHOOSE i \in DOMAIN Uppers : Uppers[i] = c]
    ELSE c

\* s[a:b] with 0 <= a, 0 <= b (Python clamps both ends to len(s))
Slice(s, a, b) == SubSeq(s, a + 1, Min(b, Len(s)))

\* s[a:]
SliceFrom(s, a) == SubSeq(s, a + 1, Len(s))

\* s.capitalize(): first character upper-cased, all the others lower-cased
Capitalize(s) ==
    [ i \in 1..Len(s) |-> IF i = 1 THEN UpperChar(s[i]) ELSE LowerChar(s[i]) ]

\* s.replace(c, "") for a one-character c
Remove(s, c) == SelectSeq(s, LAMBDA x : x # c)

\* s.startswith(c) for a one-character c
StartsWith(s, c) == Len(s) >= 1 /\ s[1] = c

\* s.find(c): 0-based index of the first c, -1 when there is none
Find(s, c) ==
    IF c \in Range(s)
    THEN (CHOOSE i \in DOMAIN s : s[i] = c /\ \A j \in 1..(i-1) : s[j] # c) - 1
    ELSE -1

\* c in s
Contains(s, c) == c \in Range(s)

Whitespace == { " ", "\n" }

\* s.split(): the maximal runs of non-whitespace characters, in order
RECURSIVE SplitFrom(_, _, _)
SplitFrom(s, i, cur) ==
    IF i > Len(s)
    THEN IF cur = << >> THEN << >> ELSE << cur >>
    ELSE IF s[i] \in Whitespace
         THEN IF cur = << >>
              THEN SplitFrom(s, i + 1, << >>)
              ELSE << cur >> \o SplitFrom(s, i + 1, << >>)
         ELSE SplitFrom(s, i + 1, Append(cur, s[i]))

Split(s) == SplitFrom(s, 1, << >>)

\* s.strip()
RECURSIVE LStrip(_)
LStrip(s) == IF s # << >> /\ s[1] \in Whitespace THEN LStrip(Tail(s)) ELSE s

RECURSIVE RStrip(_)
RStrip(s) ==
    IF s # << >> /\ s[Len(s)] \in Whitespace
    THEN RStrip(SubSeq(s, 1, Len(s) - 1))
    ELSE s

Strip(s) == RStrip(LStrip(s))

-----------------------------------------------------------------------------
(* sanitize_lang *)

\* the function without its last replace
sanitize_lang_no_comma(language) ==
    LET l1 == Remove(language, ".")
        l2 == Remove(l1, "(")
        l3 == Remove(l2, ")")
        l4 == Remove(l3, "'")
        l5 == Remove(l4, "[")
        l6 == Remove(l5, "]")
        l7 == Remove(l6, "-")
        l8 == Remove(l7, "/")
        l9 == Remove(l8, " ")
    IN  l9

\* lines 16-26: the ten replace calls, in order
sanitize_lang(language) ==
    LET l1 == Remove(language, ".")
        l2 == Remove(l1, "(")
        l3 == Remove(l2, ")")
        l4 == Remove(l3, "'")
        l5 == Remove(l4, "[")
        l6 == Remove(l5, "]")
        l7 == Remove(l6, "-")
        l8 == Remove(l7, "/")
        l9 == Remove(l8, " ")
        l10 == Remove(l9, ",")
    IN  l10

-----------------------------------------------------------------------------
(* class Language *)

\* Language(): the class-level defaults an instance starts from
Language == [ language |-> << >>, originalLanguage |-> << >>,
              id |-> << >>, tag |-> << >>, isSubLang |-> FALSE ]

-----------------------------------------------------------------------------
(* read_lang_ids *)

\* x in lst, for a Python list lst
InList(x, lst) == \E i \in DOMAIN lst : lst[i] = x

\* The loop of read_lang_ids: elements[0] of every line.  A line without a
\* token raises IndexError.
read_lang_ids(lines) ==
    IF \E i \in DOMAIN lines : Split(lines[i]) = << >>
    THEN [ raised |-> TRUE, value |-> << >> ]
    ELSE [ raised |-> FALSE,
           value |-> [ i \in DOMAIN lines |-> Split(lines[i])[1] ] ]

-----------------------------------------------------------------------------
(* parse_txt_file *)

UnsupportedId == << "0", "x", "1", "0", "0", "0" >>

\* a classification that looks at the tag alone
IsSubLangHyphenOnly(tag, id, ids) == Contains(tag, "-")

\* lines 52-56: the value of lang.isSubLang after the classification; where
\* neither assignment runs the instance keeps the class default
IsSubLang(tag, id, ids) ==
    IF ~ Contains(tag, "-")
    THEN FALSE
    ELSE IF ~ InList(id, ids) THEN TRUE ELSE Language.isSubLang

\* lines 60-67: what one pass of the while loop appends for elements[i].
\* The for loop over ["(", "["] leaves through a break in its first
\* iteration on either branch, so only its first letter is ever tested.
NameLetters == << "(", "[" >>

NameToken(tok) ==
    LET letter == NameLetters[1]
    IN  IF StartsWith(tok, letter)
        THEN << letter >> \o Capitalize(SliceFrom(tok, 1)) \o << " " >>
        ELSE Capitalize(tok) \o << " " >>

\* lines 57-68: lang.originalLanguage after the while loop
RECURSIVE NameLoop(_, _)
NameLoop(elements, i) ==
    IF i < Len(elements) - 2
    THEN NameToken(elements[i + 1]) \o NameLoop(elements, i + 1)
    ELSE << >>

\* lines 70-73: the two characters after the first hyphen are capitalized
HyphenRecap(name) ==
    LET begin == Find(name, "-")
    IN  IF begin > 0
        THEN Slice(name, 0, begin + 1)
             \o Capitalize(Slice(name, begin + 1, begin + 3))
             \o SliceFrom(name, begin + 3)
        ELSE name

\* line 76: s[:-1]
DropLast(s) == SubSeq(s, 1, Len(s) - 1)

\* a parser that appends every entry
SkippedNever(lang) == FALSE

\* line 80: the entries that are not appended (the print of line 81 is
\* not modelled)
Skipped(lang) == lang.id = UnsupportedId

\* lines 47-77: the Language built from one line; elements[-1] or
\* elements[-2] raises IndexError on a line of fewer than two tokens
ParseLine(line, ids) ==
    LET elements == Split(Strip(line))
        n == Len(elements)
    IN  IF n < 2
        THEN [ raised |-> TRUE, value |-> Language ]
        ELSE LET tag == elements[n]
                 id == elements[n - 1]
                 name == DropLast(HyphenRecap(NameLoop(elements, 0)))
             IN  [ raised |-> FALSE,
                   value |-> [ language |-> sanitize_lang(name),
                               originalLanguage |-> name,
                               id |-> id,
                               tag |-> tag,
                               isSubLang |-> IsSubLang(tag, id, ids) ] ]

\* lines 45-86: the list returned, or the IndexError of the first bad line
RECURSIVE ParseFrom(_, _, _, _)
ParseFrom(lines, ids, i, acc) ==
    IF i > Len(lines)
    THEN [ raised |-> FALSE, value |-> acc ]
    ELSE LET r == ParseLine(lines[i], ids)
         IN  IF r.raised
             THEN [ raised |-> TRUE, value |-> << >> ]
             ELSE IF Skipped(r.value)
                  THEN ParseFrom(lines, ids, i + 1, acc)
                  ELSE ParseFrom(lines, ids, i + 1, Append(acc, r.value))

parse_txt_file(lines, ids) == ParseFrom(lines, ids, 1, << >>)

-----------------------------------------------------------------------------
(* The generators *)

CommentLine(lang) == << "// ", lang.originalLanguage, " (", lang.tag, ")" >>
LangConstLine(lang) == << "Lang", lang.language, " ResourceLang = ", lang.id >>
SubLangConstLine(lang) == << "SubLang", lang.language >>

\* lines 92-97: the first loop of generate_go_code
RECURSIVE GoLangs(_, _)
GoLangs(langs, i) ==
    IF i > Len(langs)
    THEN << >>
    ELSE IF langs[i].isSubLang
         THEN GoLangs(langs, i + 1)
         ELSE << CommentLine(langs[i]), LangConstLine(langs[i]) >>
              \o GoLangs(langs, i + 1)

\* lines 100-105: the second loop of generate_go_code
RECURSIVE GoSubLangs(_, _)
GoSubLangs(langs, i) ==
    IF i > Len(langs)
    THEN << >>
    ELSE IF langs[i].isSubLang
         THEN << CommentLine(langs[i]), SubLangConstLine(langs[i]) >>
              \o GoSubLangs(langs, i + 1)
         ELSE GoSubLangs(langs, i + 1)

\* a generator that emits every entry where it stands in the list
RECURSIVE GoOnePass(_, _)
GoOnePass(langs, i) ==
    IF i > Len(langs)
    THEN << >>
    ELSE << CommentLine(langs[i]),
            IF langs[i].isSubLang THEN SubLangConstLine(langs[i])
                                  ELSE LangConstLine(langs[i]) >>
         \o GoOnePass(langs, i + 1)

generate_go_code_one_pass(langs) == GoOnePass(langs, 1)

generate_go_code(langs) == GoLangs(langs, 1) \o GoSubLangs(langs, 1)

LangStringLine(lang) ==
    << "Lang", lang.language, " :  \"", lang.originalLanguage, " (", lang.tag, ")\"," >>

RECURSIVE generate_lang_string_from(_, _)
generate_lang_string_from(langs, i) ==
    IF i > Len(langs)
    THEN << >>
    ELSE IF langs[i].isSubLang
         THEN generate_lang_string_from(langs, i + 1)
         ELSE << LangStringLine(langs[i]) >> \o generate_lang_string_from(langs, i + 1)

generate_lang_string(langs) == generate_lang_string_from(langs, 1)

SubLangStringLine(lang) ==
    << "SubLang", lang.language, " :  \"", lang.originalLanguage, " (", lang.tag, ")\"," >>

RECURSIVE generate_sub_lang_string_from(_, _)
generate_sub_lang_string_from(langs, i) ==
    IF i > Len(langs)
    THEN << >>
    ELSE IF ~ langs[i].isSubLang
         THEN generate_sub_lang_string_from(langs, i + 1)
         ELSE << SubLangStringLine(langs[i]) >>
              \o generate_sub_lang_string_from(langs, i + 1)

generate_sub_lang_string(langs) == generate_sub_lang_string_from(langs, 1)

-----------------------------------------------------------------------------
(* generate_lang_sub_lang_map_string *)

\* the list without its first element
ignore_list_short ==
    << << "0", "x", "7", "C", "6", "7" >>, << "0", "x", "0", "5", "F", "E" >>,
       << "0", "x", "0", "5", "0", "1" >>, << "0", "x", "0", "9", "F", "F" >>,
       << "0", "x", "0", "4", "3", "D" >>, << "0", "x", "0", "4", "7", "1" >>,
       << "0", "x", "0", "4", "5", "F" >> >>

\* line 128
ignore_list ==
    << << "0", "x", "0", "4", "7", "6" >>, << "0", "x", "0", "5", "F", "E" >>,
       << "0", "x", "0", "5", "0", "1" >>, << "0", "x", "0", "9", "F", "F" >>,
       << "0", "x", "0", "4", "3", "D" >>, << "0", "x", "0", "4", "7", "1" >>,
       << "0", "x", "0", "4", "5", "F" >>, << "0", "x", "7", "C", "6", "7" >> >>

HexDigits == << "0","1","2","3","4","5","6","7","8","9","a","b","c","d","e","f" >>

\* value of one digit character, 16 for a character that is no digit in any base
DigitValue(c) ==
    IF \E i \in DOMAIN HexDigits : HexDigits[i] = LowerChar(c)
    THEN (CHOOSE i \in DOMAIN HexDigits : HexDigits[i] = LowerChar(c)) - 1
    ELSE 16

RECURSIVE DigitsValue(_, _, _)
DigitsValue(ds, base, acc) ==
    IF ds = << >> THEN acc
    ELSE DigitsValue(Tail(ds), base, acc * base + DigitValue(ds[1]))

\* the base a literal prefix selects in int(s, 0); 0 when s has no prefix
PrefixBase(s) ==
    IF Len(s) >= 2 /\ s[1] = "0"
    THEN CASE LowerChar(s[2]) = "x" -> 16
           [] LowerChar(s[2]) = "o" -> 8
           [] LowerChar(s[2]) = "b" -> 2
           [] OTHER -> 0
    ELSE 0

\* int(s, 0) for an unsigned literal without underscores: its value, or -1
\* where Python raises ValueError (no digit, a digit outside the base, a
\* decimal literal with a leading zero that is not all zeros)
IntBase0(s) ==
    LET base == PrefixBase(s)
        ds == IF base = 0 THEN s ELSE SliceFrom(s, 2)
        b == IF base = 0 THEN 10 ELSE base
    IN  IF ds = << >> \/ \E i \in DOMAIN ds : DigitValue(ds[i]) >= b
        THEN -1
        ELSE IF base = 0 /\ ds[1] = "0" /\ \E i \in DOMAIN ds : ds[i] # "0"
             THEN -1
             ELSE DigitsValue(ds, b, 0)

\* f"{n:x}"
RECURSIVE HexFormat(_)
HexFormat(n) ==
    IF n < 16
    THEN << HexDigits[n + 1] >>
    ELSE Append(HexFormat(n \div 16), HexDigits[(n % 16) + 1])

RegionShift == 10

CloseGroupLine == << "}," >>
OpenGroupLine(lang) == << "Lang", lang.language, " : {" >>
SubLangMapLine(lang) ==
    << " 0x", HexFormat(IntBase0(lang.id) \div (2 ^ RegionShift)),
       " : SubLang", lang.language, ".String()," >>

\* lines 130-139 with a closing line written before every opening line
MapIterationAlwaysCloses(lang, c, open) ==
    IF InList(lang.id, ignore_list)
    THEN [ raised |-> FALSE, code |-> c, open |-> open ]
    ELSE IF ~ lang.isSubLang
         THEN [ raised |-> FALSE,
                code |-> c \o << CloseGroupLine, OpenGroupLine(lang) >>,
                open |-> TRUE ]
         ELSE IF IntBase0(lang.id) < 0
              THEN [ raised |-> TRUE, code |-> c, open |-> open ]
              ELSE [ raised |-> FALSE,
                     code |-> Append(c, SubLangMapLine(lang)),
                     open |-> open ]

\* lines 130-139: one iteration of the for loop on entry lang, from the
\* local code c and flag open; raised is the ValueError of int(lang.id, 0)
MapIteration(lang, c, open) ==
    IF InList(lang.id, ignore_list)
    THEN [ raised |-> FALSE, code |-> c, open |-> open ]
    ELSE IF ~ lang.isSubLang
         THEN [ raised |-> FALSE,
                code |-> (IF open THEN Append(c, CloseGroupLine) ELSE c)
                         \o << OpenGroupLine(lang) >>,
                open |-> TRUE ]
         ELSE IF IntBase0(lang.id) < 0
              THEN [ raised |-> TRUE, code |-> c, open |-> open ]
              ELSE [ raised |-> FALSE,
                     code |-> Append(c, SubLangMapLine(lang)),
                     open |-> open ]

-----------------------------------------------------------------------------
(* The files the runs start from *)

\* every sequence over A of length at most n
SeqsUpTo(A, n) == UNION { [ 1..k -> A ] : k \in 0..n }

\* lines of lang_ids.txt
IdLineA == << "0", "x", "0", "8", "0", "9", "\n" >>
IdLineB == << "0", "x", "0", "4", "7", "6", " ", "l", "a", "\n" >>
IdLineBlank == << " ", "\n" >>

IdFiles == { << >>, << IdLineB >>, << IdLineA, IdLineB >>, << IdLineBlank >> }

\* lines of ms-lcid.txt
LineTop == << " ", " ", "a", "b", " ", "0", "x", "0", "4", "0", "9", " ", "e", "n", " ", "\n" >>
LineRegion == << "(", "c", "d", ")", " ", "a", "-", "b", "c", " ", "0", "x", "0", "8", "0", "9", " ", "e", "n", "-", "G", "B", "\n" >>
LineUnsupported == << "x", " ", "0", "x", "1", "0", "0", "0", " ", "a", "a", "-", "B", "B", "\n" >>
LineIgnored == << "y", " ", "0", "x", "0", "4", "7", "6", " ", "l", "a", "-", "V", "A", "\n" >>
LineBadId == << "q", " ", "z", "z", " ", "a", "-", "b", "\n" >>
LineOneToken == << "e", "n", "\n" >>

SpecLines == { LineTop, LineRegion, LineUnsupported, LineIgnored, LineBadId,
               LineOneToken }

OutFiles == { "out.txt", "langs.txt", "sub_langs.txt", "map.txt" }
InFiles == { "lang_ids.txt", "ms-lcid.txt" }
Generators == { "generate_go_code", "generate_lang_string",
                "generate_sub_lang_string", "generate_lang_sub_lang_map_string" }

NoFile == [ written |-> FALSE, content |-> << >> ]

-----------------------------------------------------------------------------
(* __main__ *)

Init ==
    /\ pc = "read_lang_ids"
    /\ fs_ids \in IdFiles
    /\ fs_spec \in SeqsUpTo(SpecLines, MaxLines)
    /\ lang_ids = << >>
    /\ languages = << >>
    /\ code = << >>
    /\ map_code = << >>
    /\ disk = [ f \in OutFiles |-> NoFile ]
    /\ curly_bracket_is_open = FALSE
    /\ idx = 0
    /\ reads = { }
    /\ generated = { }
    /\ arg = << >>
    /\ ret = << >>

\* an uncaught exception ends the run
Raise ==
    /\ pc' = "failed"
    /\ UNCHANGED << map_code, fs_ids, fs_spec, lang_ids, languages, code, disk,
                    curly_bracket_is_open, idx, reads, generated, arg, ret >>

\* line 148; open() raises OSError when lang_ids.txt cannot be read
MainReadLangIds ==
    /\ pc = "read_lang_ids"
    /\ \/ Raise
       \/ /\ read_lang_ids(fs_ids).raised
          /\ Raise
       \/ /\ ~ read_lang_ids(fs_ids).raised
          /\ lang_ids' = read_lang_ids(fs_ids).value
          /\ reads' = reads \cup { "lang_ids.txt" }
          /\ pc' = "parse_txt_file"
          /\ UNCHANGED << map_code, fs_ids, fs_spec, languages, code, disk,
                          curly_bracket_is_open, idx, generated, arg, ret >>

\* line 149; open() raises OSError when ms-lcid.txt cannot be read
MainParseTxtFile ==
    /\ pc = "parse_txt_file"
    /\ \/ Raise
       \/ /\ parse_txt_file(fs_spec, lang_ids).raised
          /\ Raise
       \/ /\ ~ parse_txt_file(fs_spec, lang_ids).raised
          /\ languages' = parse_txt_file(fs_spec, lang_ids).value
          /\ reads' = reads \cup { "ms-lcid.txt" }
          /\ pc' = "generate_go_code"
          /\ UNCHANGED << map_code, fs_ids, fs_spec, lang_ids, code, disk,
                          curly_bracket_is_open, idx, generated, arg, ret >>

\* a call of one of the three generators that cannot raise
Generate(at, text, next) ==
    /\ pc = at
    /\ code' = text
    /\ generated' = generated \cup { at }
    /\ pc' = next
    /\ UNCHANGED << map_code, fs_ids, fs_spec, lang_ids, languages, disk,
                    curly_bracket_is_open, idx, reads, arg, ret >>

\* write_generated_code(code, filename); open() raises OSError when the
\* file cannot be created
Write(at, filename, next) ==
    /\ pc = at
    /\ \/ Raise
       \/ /\ disk' = [ disk EXCEPT ![filename] = [ written |-> TRUE, content |-> code ] ]
          /\ pc' = next
          /\ UNCHANGED << map_code, fs_ids, fs_spec, lang_ids, languages, code,
                          curly_bracket_is_open, idx, reads, generated, arg, ret >>

\* line 151
MainGenerateGoCode ==
    Generate("generate_go_code", generate_go_code(languages), "write_out")

\* line 152
MainWriteOut == Write("write_out", "out.txt", "generate_lang_string")

\* line 154
MainGenerateLangString ==
    Generate("generate_lang_string", generate_lang_string(languages), "write_langs")

\* line 155
MainWriteLangs == Write("write_langs", "langs.txt", "generate_sub_lang_string")

\* line 157
MainGenerateSubLangString ==
    Generate("generate_sub_lang_string", generate_sub_lang_string(languages),
             "write_sub_langs")

\* line 158
MainWriteSubLangs ==
    Write("write_sub_langs", "sub_langs.txt", "generate_lang_sub_lang_map_string")

\* line 160, the call: lines 125-128
MapEnter ==
    /\ pc = "generate_lang_sub_lang_map_string"
    /\ map_code' = << >>
    /\ curly_bracket_is_open' = FALSE
    /\ idx' = 1
    /\ pc' = "map_loop"
    /\ UNCHANGED << fs_ids, fs_spec, lang_ids, languages, code, disk, reads,
                    generated, arg, ret >>

\* lines 129-139: one iteration of the for loop
MapLoop ==
    /\ pc = "map_loop"
    /\ idx <= Len(languages)
    /\ LET r == MapIteration(languages[idx], map_code, curly_bracket_is_open)
       IN  \/ /\ r.raised
              /\ Raise
           \/ /\ ~ r.raised
              /\ map_code' = r.code
              /\ curly_bracket_is_open' = r.open
              /\ idx' = idx + 1
              /\ UNCHANGED << pc, fs_ids, fs_spec, lang_ids, languages, code, disk,
                              reads, generated, arg, ret >>

\* line 140 and the assignment of line 160
MapReturn ==
    /\ pc = "map_loop"
    /\ idx > Len(languages)
    /\ code' = map_code
    /\ generated' = generated \cup { "generate_lang_sub_lang_map_string" }
    /\ pc' = "write_map"
    /\ UNCHANGED << map_code, fs_ids, fs_spec, lang_ids, languages, disk,
                    curly_bracket_is_open, idx, reads, arg, ret >>

\* line 161
MainWriteMap == Write("write_map", "map.txt", "done")

Next ==
    \/ MainReadLangIds
    \/ MainParseTxtFile
    \/ MainGenerateGoCode
    \/ MainWriteOut
    \/ MainGenerateLangString
    \/ MainWriteLangs
    \/ MainGenerateSubLangString
    \/ MainWriteSubLangs
    \/ MapEnter
    \/ MapLoop
    \/ MapReturn
    \/ MainWriteMap

Spec == Init /\ [][Next]_vars

-----------------------------------------------------------------------------
(* sanitize_lang on its own: every short string over the characters it     *)
(* strips and two letters                                                   *)

SanitizeAlphabet == { ".", "(", ")", "'", "[", "]", "-", "/", " ", ",", "a", "B" }

InitSanitize ==
    /\ pc = "sanitize_lang"
    /\ arg \in SeqsUpTo(SanitizeAlphabet, MaxStrLen)
    /\ ret = << >>
    /\ fs_ids = << >>
    /\ fs_spec = << >>
    /\ lang_ids = << >>
    /\ languages = << >>
    /\ code = << >>
    /\ map_code = << >>
    /\ disk = [ f \in OutFiles |-> NoFile ]
    /\ curly_bracket_is_open = FALSE
    /\ idx = 0
    /\ reads = { }
    /\ generated = { }

CallSanitizeLang ==
    /\ pc = "sanitize_lang"
    /\ ret' = sanitize_lang(arg)
    /\ pc' = "returned"
    /\ UNCHANGED << map_code, fs_ids, fs_spec, lang_ids, languages, code, disk,
                    curly_bracket_is_open, idx, reads, generated, arg >>

SpecSanitize == InitSanitize /\ [][CallSanitizeLang]_vars

-----------------------------------------------------------------------------
(* The name loop of parse_txt_file on its own: every list of short name    *)
(* tokens, followed by an id and a tag                                      *)

NameAlphabet == { "(", "[", "a", "B", "-" }
NameTokens == SeqsUpTo(NameAlphabet, MaxTokLen) \ { << >> }
NameTail == << << "0", "x", "0", "4", "0", "9" >>, << "e", "n" >> >>

InitName ==
    /\ pc = "name_loop"
    /\ \E toks \in SeqsUpTo(NameTokens, MaxNameTokens) : arg = toks \o NameTail
    /\ ret = << >>
    /\ fs_ids = << >>
    /\ fs_spec = << >>
    /\ lang_ids = << >>
    /\ languages = << >>
    /\ code = << >>
    /\ map_code = << >>
    /\ disk = [ f \in OutFiles |-> NoFile ]
    /\ curly_bracket_is_open = FALSE
    /\ idx = 0
    /\ reads = { }
    /\ generated = { }

CallNameLoop ==
    /\ pc = "name_loop"
    /\ ret' = NameLoop(arg, 0)
    /\ pc' = "returned"
    /\ UNCHANGED << map_code, fs_ids, fs_spec, lang_ids, languages, code, disk,
                    curly_bracket_is_open, idx, reads, generated, arg >>

SpecName == InitName /\ [][CallNameLoop]_vars

-----------------------------------------------------------------------------
(* Vocabulary of the properties *)

Last(s) == s[Len(s)]
SecondLast(s) == s[Len(s) - 1]

\* parse_txt_file has returned
Parsed == "ms-lcid.txt" \in reads

\* the token lists of the lines of ms-lcid.txt whose id is not 0x1000
KeptLines ==
    SelectSeq([ i \in DOMAIN fs_spec |-> Split(fs_spec[i]) ],
              LAMBDA e : SecondLast(e) # << "0", "x", "1", "0", "0", "0" >>)

HasUnsupportedLine ==
    \E i \in DOMAIN fs_spec :
        Len(Split(fs_spec[i])) >= 2
        /\ SecondLast(Split(fs_spec[i])) = << "0", "x", "1", "0", "0", "0" >>

ExcludedIds ==
    { << "0", "x", "0", "4", "7", "6" >>, << "0", "x", "0", "5", "F", "E" >>,
      << "0", "x", "0", "5", "0", "1" >>, << "0", "x", "0", "9", "F", "F" >>,
      << "0", "x", "0", "4", "3", "D" >>, << "0", "x", "0", "4", "7", "1" >>,
      << "0", "x", "0", "4", "5", "F" >>, << "0", "x", "7", "C", "6", "7" >> }

StrippedChars == { ".", "(", ")", "'", "[", "]", "-", "/", ",", " " }

IsClosingLine(line) == Len(line) = 1 /\ line[1] = "},"
IsOpeningLine(line) == Len(line) = 3 /\ line[1] = "Lang" /\ line[3] = " : {"
IsSubLangMapLine(line) == Len(line) = 5 /\ line[1] = " 0x" /\ line[3] = " : SubLang"

\* the map generator is running or has run
InMap == pc = "map_loop" \/ "generate_lang_sub_lang_map_string" \in generated

\* entries the for loop of the map generator has gone through
MapDone == 1..(idx - 1)

TopLevelDone ==
    { i \in MapDone : ~ languages[i].isSubLang /\ languages[i].id \notin ExcludedIds }

Openings == { i \in DOMAIN map_code : IsOpeningLine(map_code[i]) }
Closings == { i \in DOMAIN map_code : IsClosingLine(map_code[i]) }

-----------------------------------------------------------------------------
(* The properties *)

\* C1: once parse_txt_file has returned, the entry of every kept line has
\* isSubLang true exactly when the line's last token (the tag) contains a
\* hyphen and its second-to-last token (the id) is not in lang_ids.
C1_IsSubLangRule ==
    Parsed =>
        /\ Len(languages) = Len(KeptLines)
        /\ \A i \in DOMAIN languages :
              languages[i].isSubLang <=>
                  /\ "-" \in Range(Last(KeptLines[i]))
                  /\ SecondLast(KeptLines[i]) \notin Range(lang_ids)

\* the three fixtures at once: hyphenated tag with a known id (false),
\* hyphenated tag with an unknown id (true), tag without hyphen (false)
C1_Witness ==
    /\ Parsed
    /\ \E i \in DOMAIN languages :
          /\ "-" \in Range(languages[i].tag)
          /\ languages[i].id \in Range(lang_ids)
          /\ ~ languages[i].isSubLang
    /\ \E i \in DOMAIN languages :
          /\ "-" \in Range(languages[i].tag)
          /\ languages[i].id \notin Range(lang_ids)
          /\ languages[i].isSubLang
    /\ \E i \in DOMAIN languages : "-" \notin Range(languages[i].tag)

\* C2: once parse_txt_file has returned, languages holds one entry per line
\* whose id is not 0x1000, in the order of the lines, and none for the
\* others; no entry has id 0x1000, and no constant of a written file has.
C2_SkipUnsupported ==
    Parsed =>
        /\ [ i \in DOMAIN languages |-> << languages[i].id, languages[i].tag >> ]
              = [ i \in DOMAIN KeptLines |->
                      << SecondLast(KeptLines[i]), Last(KeptLines[i]) >> ]
        /\ \A i \in DOMAIN languages : languages[i].id # << "0", "x", "1", "0", "0", "0" >>
        /\ disk["out.txt"].written =>
              /\ Len(disk["out.txt"].content) = 2 * Len(KeptLines)
              /\ \A i \in DOMAIN disk["out.txt"].content :
                    LET line == disk["out.txt"].content[i]
                    IN  Len(line) = 4 => line[4] # << "0", "x", "1", "0", "0", "0" >>
        /\ disk["langs.txt"].written /\ disk["sub_langs.txt"].written =>
              Len(disk["langs.txt"].content) + Len(disk["sub_langs.txt"].content)
                  = Len(KeptLines)
        /\ disk["map.txt"].written =>
              Len(disk["map.txt"].content) <= 2 * Len(KeptLines)

C2_Witness ==
    /\ pc = "done"
    /\ HasUnsupportedLine
    /\ Len(languages) >= 2
    /\ Len(fs_spec) > Len(languages)

\* C3: no generator has returned before both input files were read, and no
\* output file is written before all four generators have returned.
C3_ReadGenerateWrite ==
    /\ generated # { } => reads = InFiles
    /\ (\E f \in OutFiles : disk[f].written) => generated = Generators

\* C4: a run that has failed has written no output file.
C4_NoPartialOutput ==
    pc = "failed" => \A f \in OutFiles : ~ disk[f].written

\* C5: the iteration of the map generator on an entry whose id is one of the
\* eight excluded ids adds no line and leaves the group flag as it was.
C5_ExcludedSkipped ==
    [][ ( /\ pc = "map_loop"
          /\ idx <= Len(languages)
          /\ languages[idx].id \in ExcludedIds )
        => ( /\ map_code' = map_code
             /\ curly_bracket_is_open' = curly_bracket_is_open
             /\ idx' = idx + 1 ) ]_vars

\* an excluded sub-language entry was gone through inside an open group
C5_Witness ==
    /\ pc = "map_loop"
    /\ idx > 1
    /\ languages[idx - 1].id \in ExcludedIds
    /\ languages[idx - 1].isSubLang
    /\ curly_bracket_is_open
    /\ map_code # << >>

\* C6: the blob generate_go_code returns is the comment line and the
\* constant line of every top-level entry, in list order, followed by the
\* comment line and the token line of every sub-language entry, in list order.
C6_GoCodeOrder ==
    pc = "write_out" =>
        LET tops == SelectSeq(languages, LAMBDA l : ~ l.isSubLang)
            subs == SelectSeq(languages, LAMBDA l : l.isSubLang)
            n == Len(tops)
        IN  /\ Len(code) = 2 * Len(languages)
            /\ \A i \in DOMAIN tops :
                  /\ code[2 * i - 1]
                        = << "// ", tops[i].originalLanguage, " (", tops[i].tag, ")" >>
                  /\ code[2 * i]
                        = << "Lang", tops[i].language, " ResourceLang = ", tops[i].id >>
            /\ \A j \in DOMAIN subs :
                  /\ code[2 * n + 2 * j - 1]
                        = << "// ", subs[j].originalLanguage, " (", subs[j].tag, ")" >>
                  /\ code[2 * n + 2 * j] = << "SubLang", subs[j].language >>

\* two different sub-language entries with a top-level entry between them
C6_Witness ==
    /\ pc = "write_out"
    /\ \E i, j, k \in DOMAIN languages :
          /\ i < j /\ j < k
          /\ languages[i].isSubLang
          /\ ~ languages[j].isSubLang
          /\ languages[k].isSubLang
          /\ languages[i] # languages[k]

\* C7: the string sanitize_lang returns holds none of the ten characters and
\* is its argument with exactly those characters taken out.
C7_SanitizeStrips ==
    pc = "returned" =>
        /\ Range(ret) \cap StrippedChars = { }
        /\ ret = SelectSeq(arg, LAMBDA c : c \notin StrippedChars)

\* a comma between two letters was taken out
C7_Witness ==
    /\ pc = "returned"
    /\ arg = << "a", ",", "B" >>
    /\ ret = << "a", "B" >>

\* C8: in the map generator, after any number of entries of which k are
\* non-excluded top-level entries, the local code holds k opening lines and
\* k-1 closing lines (none when k = 0), the flag is set exactly when k >= 1
\* and the code does not end with a closing line; the flag is never reset;
\* the iteration on a non-excluded top-level entry adds a closing line
\* exactly when the flag is set, then the opening line, and sets the flag.
C8_GroupStateMachine ==
    /\ [] ( InMap =>
              /\ Cardinality(Openings) = Cardinality(TopLevelDone)
              /\ Cardinality(Closings) =
                    (IF TopLevelDone = { } THEN 0 ELSE Cardinality(TopLevelDone) - 1)
              /\ curly_bracket_is_open <=> TopLevelDone # { }
              /\ map_code # << >> => ~ IsClosingLine(Last(map_code)) )
    /\ [][ curly_bracket_is_open => curly_bracket_is_open' ]_vars
    /\ [][ ( /\ pc = "map_loop"
             /\ idx <= Len(languages)
             /\ ~ languages[idx].isSubLang
             /\ languages[idx].id \notin ExcludedIds )
           => ( /\ curly_bracket_is_open'
                /\ map_code' =
                      (IF curly_bracket_is_open
                       THEN Append(map_code, << "}," >>)
                       ELSE map_code)
                      \o << << "Lang", languages[idx].language, " : {" >> >> ) ]_vars

\* the generator returned after opening three groups
C8_Witness ==
    /\ pc = "write_map"
    /\ Cardinality(Openings) = 3
    /\ Cardinality(Closings) = 2

\* what the name loop is said to append for one token
BracketAwareToken(tok) ==
    IF StartsWith(tok, "(") \/ StartsWith(tok, "[")
    THEN << tok[1] >> \o Capitalize(SliceFrom(tok, 1)) \o << " " >>
    ELSE Capitalize(tok) \o << " " >>

RECURSIVE BracketAwareName(_, _)
BracketAwareName(elements, i) ==
    IF i > Len(elements) - 2
    THEN << >>
    ELSE BracketAwareToken(elements[i]) \o BracketAwareName(elements, i + 1)

\* C9: the name the while loop builds is, token by token, the bracket
\* followed by the capitalized remainder and a space for a token that begins
\* with ( or [, and the capitalized token and a space for any other token.
C9_BracketTokens ==
    pc = "returned" => ret = BracketAwareName(arg, 1)

\* C10: every sub-language line of the map generator's code comes after an
\* opening line.
C10_SubLangInsideGroup ==
    \A i \in DOMAIN map_code :
        IsSubLangMapLine(map_code[i]) =>
            \E j \in 1..(i - 1) : IsOpeningLine(map_code[j])

====
